---- MODULE Spec2Model ----
(***************************************************************************)
(* Tank ledger of tank-management-v2: the movement lifecycle service       *)
(* (backend/services/movement_service.py), its volume arithmetic           *)
(* (backend/services/calculations.py), the default/manual override fields  *)
(* (backend/models/movements.py) and the document store it reads and       *)
(* writes (backend/services/storage.py).                                   *)
(*                                                                         *)
(* Volumes are integers: one unit is 0.01 bbl, the precision round(x, 2)   *)
(* keeps, so every quantity of the model is already a two-decimal value.   *)
(* Dates are day numbers.  An Optional[...] field is a sequence: <<>> is   *)
(* None and <<v>> is the value v.                                          *)
(***************************************************************************)
EXTENDS Integers, Sequences, FiniteSets, TLC

\* ------------------------------------------------------------------ bounds
\* Movements ever created (ids are never reused).
MaxMov == 2
\* Dates are 1..MaxDate.
MaxDate == 4
\* Requested volumes are 1..MaxVol.
MaxVol == 2
\* Service calls in one behaviour.
MaxCalls == 3
\* The longer histories of one tank pair (SpecLedger): movements ever created
\* and service calls.
MaxLedgerMov == 3
MaxLedgerCalls == 4

Dates == 1..MaxDate
\* date.today(): the same day throughout a behaviour.
today == 2
Volumes == 1..MaxVol
MovementIds == 1..MaxMov

\* The tanks of the store, and an id no tank has.
TankIds == {"A", "B"}
GhostTank == "X"

\* Tank.capacity and Tank.initial_level of the tanks of the store.
Capacity == 3
InitialLevelA == 2
InitialLevelB == 0

\* Optional values.
None == <<>>
Some(v) == <<v>>
IsSet(x) == x # <<>>
Get(x) == x[1]

Max(a, b) == IF a >= b THEN a ELSE b
Min(a, b) == IF a <= b THEN a ELSE b
Abs(a) == IF a >= 0 THEN a ELSE 0 - a

\* round(x, 2): exact on the model's two-decimal quantities.
Round2(x) == x

VARIABLES
    \* movements container: id -> document, defined on the stored ids
    movements,
    \* tanks container: id -> document
    tanks,
    \* the next movement id generate_id() hands out; created_at follows it
    nextId,
    \* how the store orders documents whose ORDER BY keys are equal
    dbTies,
    \* the last service call: its name, outcome and the movement it addressed
    last,
    \* service calls made so far
    calls,
    \* the requests being served concurrently: for each, its position in the
    \* handler and the handler's local variables
    requests

vars == <<movements, tanks, nextId, dbTies, last, calls, requests>>

\* --------------------------------------------- models/movements.py (resolver)
tank_id(m) == IF IsSet(m.tank_id_manual) THEN m.tank_id_manual ELSE m.tank_id_default

expected_volume(m) ==
    IF IsSet(m.expected_volume_manual) THEN m.expected_volume_manual
    ELSE m.expected_volume_default

\* scheduled_date resolved the other way round: the default wins when set.
scheduled_date_default_first(m) ==
    IF IsSet(m.scheduled_date_default) THEN m.scheduled_date_default
    ELSE m.scheduled_date_manual

scheduled_date(m) ==
    IF IsSet(m.scheduled_date_manual) THEN m.scheduled_date_manual
    ELSE m.scheduled_date_default

notes(m) == IF IsSet(m.notes_manual) THEN m.notes_manual ELSE m.notes_default

trade_number(m) == IF IsSet(m.trade_number_manual) THEN m.trade_number_manual ELSE m.trade_number_default

trade_line_item(m) == IF IsSet(m.trade_line_item_manual) THEN m.trade_line_item_manual ELSE m.trade_line_item_default

strategy(m) == IF IsSet(m.strategy_manual) THEN m.strategy_manual ELSE m.strategy_default

destination(m) == IF IsSet(m.destination_manual) THEN m.destination_manual ELSE m.destination_default

equipment(m) == IF IsSet(m.equipment_manual) THEN m.equipment_manual ELSE m.equipment_default

discharge_date(m) == IF IsSet(m.discharge_date_manual) THEN m.discharge_date_manual ELSE m.discharge_date_default

base_diff(m) == IF IsSet(m.base_diff_manual) THEN m.base_diff_manual ELSE m.base_diff_default

quality_adj_diff(m) == IF IsSet(m.quality_adj_diff_manual) THEN m.quality_adj_diff_manual ELSE m.quality_adj_diff_default

\* Movement(...): a new document; fields not given keep their defaults.
Movement(id, type, tank, target, expDefault, actual, date, rv, trv) ==
    [ id |-> id, created_at |-> id, type |-> type,
      tank_id_default |-> tank, tank_id_manual |-> None,
      target_tank_id |-> target,
      expected_volume_default |-> expDefault, expected_volume_manual |-> None,
      actual_volume |-> actual,
      scheduled_date_default |-> date, scheduled_date_manual |-> None,
      resulting_volume |-> rv, target_resulting_volume |-> trv,
      signal_id |-> None ]

\* Field(gt=0) on expected_volume_default, Field(ge=0) on the resulting volumes
\* and validate_actual_volume: does pydantic accept the document?
MovementValid(m) ==
    /\ IsSet(m.expected_volume_default) => Get(m.expected_volume_default) > 0
    /\ IsSet(m.expected_volume_manual) => Get(m.expected_volume_manual) > 0
    /\ IsSet(m.resulting_volume) => Get(m.resulting_volume) >= 0
    /\ IsSet(m.target_resulting_volume) => Get(m.target_resulting_volume) >= 0
    /\ (IsSet(m.actual_volume) /\ Get(m.actual_volume) < 0) => m.type = "adjustment"

\* ------------------------------------------------- services/calculations.py
\* get_effective_volume preferring the expected volume to the actual one.
get_effective_volume_expected_first(m) ==
    IF IsSet(expected_volume(m)) THEN Get(expected_volume(m))
    ELSE IF IsSet(m.actual_volume) THEN Get(m.actual_volume) ELSE 0

get_effective_volume(m) ==
    IF IsSet(m.actual_volume) THEN Get(m.actual_volume)
    ELSE IF IsSet(expected_volume(m)) THEN Get(expected_volume(m)) ELSE 0

get_volume_delta(m, tankId) ==
    LET volume == get_effective_volume(m) IN
    IF m.type = "load" /\ tank_id(m) = Some(tankId) THEN volume
    ELSE IF m.type = "discharge" /\ tank_id(m) = Some(tankId) THEN 0 - volume
    ELSE IF m.type = "transfer" THEN
        IF tank_id(m) = Some(tankId) THEN 0 - volume
        ELSE IF m.target_tank_id = Some(tankId) THEN volume
        ELSE 0
    ELSE IF m.type = "adjustment" /\ tank_id(m) = Some(tankId) THEN volume
    ELSE 0

\* apply_movement_to_level without the floor at zero.
apply_movement_unfloored(level, m, tankId) ==
    level + get_volume_delta(m, tankId)

apply_movement_to_level(level, m, tankId) ==
    LET volume == get_effective_volume(m)
        moved ==
            IF m.type = "load" /\ tank_id(m) = Some(tankId) THEN level + volume
            ELSE IF m.type = "discharge" /\ tank_id(m) = Some(tankId) THEN level - volume
            ELSE IF m.type = "transfer" THEN
                IF tank_id(m) = Some(tankId) THEN level - volume
                ELSE IF m.target_tank_id = Some(tankId) THEN level + volume
                ELSE level
            ELSE IF m.type = "adjustment" /\ tank_id(m) = Some(tankId) THEN level + volume
            ELSE level
    IN Max(0, moved)

calculate_adjustment(current_level, physical_level) == physical_level - current_level

\* calculate_tank_level: one running sum over the list, floored once at the end.
RECURSIVE tank_level_sum(_, _, _, _, _)
tank_level_sum(level, seq, i, tankId, cutoff) ==
    IF i > Len(seq) THEN level
    ELSE LET m == seq[i]
             skip == IsSet(scheduled_date(m)) /\ Get(scheduled_date(m)) > cutoff
         IN tank_level_sum(IF skip THEN level ELSE level + get_volume_delta(m, tankId),
                           seq, i + 1, tankId, cutoff)

calculate_tank_level(tank, seq, as_of) ==
    Max(0, tank_level_sum(tank.initial_level, seq, 1, tank.id, as_of))

\* ------------------------------------------------------ services/storage.py
\* The limit of the starting-volume query.
QueryLimit == 100

\* CosmosStorage.update: read the document, overwrite the fields of `updates`
\* that are not None, replace it.
storage_update(movs, id, updates) ==
    [movs EXCEPT ![id] =
        [f \in DOMAIN movs[id] |->
            IF f \in DOMAIN updates /\ IsSet(updates[f]) THEN updates[f] ELSE movs[id][f]]]

\* CosmosStorage.create / CosmosStorage.delete on the movements container.
storage_create(movs, m) == [id \in (DOMAIN movs) \cup {m.id} |-> IF id = m.id THEN m ELSE movs[id]]

storage_delete(movs, id) == [j \in (DOMAIN movs) \ {id} |-> movs[j]]

\* CosmosStorage.query: the documents `ids` selected by the WHERE clause, in
\* ORDER BY c.<Key> ASC or DESC.  The store leaves the order of documents with
\* equal keys open; dbTies fixes it, per direction, as insertion order or its reverse.
storage_query(movs, ids, Key(_), order_desc) ==
    LET ties == IF order_desc THEN dbTies.desc ELSE dbTies.asc
        tie(id) == IF ties = "insertion" THEN id ELSE MaxLedgerMov + 1 - id
        rank(id) == (IF order_desc THEN 0 - Key(movs[id]) ELSE Key(movs[id])) * (MaxLedgerMov + 1)
                       + tie(id)
        n == Cardinality(ids)
    IN [k \in 1..n |->
           movs[CHOOSE id \in ids : Cardinality({j \in ids : rank(j) < rank(id)}) = k - 1]]

\* list.sort(key=..., reverse=...): stable in both directions.
list_sort(seq, Key(_), reverse) ==
    LET n == Len(seq)
        rank(i) == (IF reverse THEN 0 - Key(seq[i]) ELSE Key(seq[i])) * (n + 1) + i
    IN [k \in 1..n |->
           seq[CHOOSE i \in 1..n : Cardinality({j \in 1..n : rank(j) < rank(i)}) = k - 1]]

\* ORDER BY keys; a null sorts before every date.
scheduled_date_default_key(m) ==
    IF IsSet(m.scheduled_date_default) THEN Get(m.scheduled_date_default) ELSE 0
created_at_key(m) == m.created_at
\* lambda m: m.scheduled_date or date.min
scheduled_date_key(m) == IF IsSet(scheduled_date(m)) THEN Get(scheduled_date(m)) ELSE 0

\* (c.tank_id_default = @tank_id OR c.tank_id_manual = @tank_id OR c.target_tank_id = @tank_id)
tank_condition(m, tankId) ==
    \/ m.tank_id_default = Some(tankId)
    \/ m.tank_id_manual = Some(tankId)
    \/ m.target_tank_id = Some(tankId)

\* ------------------------------------------- services/movement_service.py
get_tank_movements_from_date(movs, tankId, from_date, exclude_movement_id) ==
    LET ids == {id \in DOMAIN movs :
                  /\ tank_condition(movs[id], tankId)
                  /\ \/ (IsSet(movs[id].scheduled_date_default)
                            /\ Get(movs[id].scheduled_date_default) >= from_date)
                     \/ (IsSet(movs[id].scheduled_date_manual)
                            /\ Get(movs[id].scheduled_date_manual) >= from_date)}
        fetched == storage_query(movs, ids, scheduled_date_default_key, FALSE)
        kept == SelectSeq(fetched, LAMBDA m : Some(m.id) # exclude_movement_id)
        from == SelectSeq(kept, LAMBDA m :
                    IsSet(scheduled_date(m)) /\ Get(scheduled_date(m)) >= from_date)
    IN list_sort(from, scheduled_date_key, FALSE)

\* The query of _get_starting_volume_for_tank: the candidates, latest
\* scheduled_date_default first, cut at the limit.
starting_volume_query(movs, tankId, before_date) ==
    LET ids == {id \in DOMAIN movs :
                  /\ tank_condition(movs[id], tankId)
                  /\ \/ (IsSet(movs[id].scheduled_date_default)
                            /\ Get(movs[id].scheduled_date_default) < before_date)
                     \/ (IsSet(movs[id].scheduled_date_manual)
                            /\ Get(movs[id].scheduled_date_manual) < before_date)}
    IN storage_query(movs, ids, scheduled_date_default_key, TRUE)

\* The movements of `all` effectively dated before before_date, latest first.
starting_volume_sorted(all, before_date) ==
    list_sort(SelectSeq(SubSeq(all, 1, Min(Len(all), QueryLimit)),
                        LAMBDA m : IsSet(scheduled_date(m))
                                      /\ Get(scheduled_date(m)) < before_date),
              scheduled_date_key, TRUE)

\* The volume recorded on the first movement of `sorted` that has one, else
\* the level calculated from the initial level.
starting_volume_recorded(tank, sorted, before_date) ==
    LET asSource(m) == tank_id(m) = Some(tank.id) /\ IsSet(m.resulting_volume)
        asTarget(m) == m.target_tank_id = Some(tank.id) /\ IsSet(m.target_resulting_volume)
        recorded == SelectSeq(sorted, LAMBDA m : asSource(m) \/ asTarget(m))
    IN IF Len(sorted) > 0
       THEN IF Len(recorded) > 0
            THEN IF asSource(recorded[1]) THEN Get(recorded[1].resulting_volume)
                 ELSE Get(recorded[1].target_resulting_volume)
            ELSE calculate_tank_level(tank, list_sort(sorted, scheduled_date_key, FALSE),
                                      before_date - 1)
       ELSE tank.initial_level

get_starting_volume_for_tank(movs, tank, before_date) ==
    starting_volume_recorded(
        tank,
        starting_volume_sorted(starting_volume_query(movs, tank.id, before_date), before_date),
        before_date)

RECURSIVE apply_all(_, _, _, _)
apply_all(level, seq, i, tankId) ==
    IF i > Len(seq) THEN level
    ELSE apply_all(apply_movement_to_level(level, seq[i], tankId), seq, i + 1, tankId)

\* The second query of _get_available_volume_for_movement and its loop: the
\* movements of the date, in created_at order, applied to starting_volume.
available_after_same_day(movs, tank, date, exclude_movement_id, starting_volume) ==
    LET ids == {id \in DOMAIN movs :
                  /\ tank_condition(movs[id], tank.id)
                  /\ \/ movs[id].scheduled_date_default = Some(date)
                     \/ movs[id].scheduled_date_manual = Some(date)}
        fetched == storage_query(movs, ids, created_at_key, FALSE)
        sameDay == SelectSeq(fetched, LAMBDA m : scheduled_date(m) = Some(date))
        others == SelectSeq(sameDay, LAMBDA m : Some(m.id) # exclude_movement_id)
    IN apply_all(starting_volume, others, 1, tank.id)

get_available_volume_for_movement(movs, tank, date, exclude_movement_id) ==
    available_after_same_day(movs, tank, date, exclude_movement_id,
                             get_starting_volume_for_tank(movs, tank, date))

\* The loop of _recalculate_tank_volumes over the fetched list: the movement
\* objects are the ones the query returned, the writes go to the store.
RECURSIVE recalculate_loop(_, _, _, _, _, _)
\* recalculate_step that writes the level to both volume fields of a movement
\* touching the tank.
recalculate_step_both_fields(movs, seq, i, tankId, level, level_as_of_today) ==
    recalculate_loop(
        IF tank_id(seq[i]) = Some(tankId) \/ seq[i].target_tank_id = Some(tankId)
        THEN storage_update(movs, seq[i].id,
                            [resulting_volume |-> Some(Round2(level)),
                             target_resulting_volume |-> Some(Round2(level))])
        ELSE movs,
        seq, i + 1, tankId, level,
        IF IsSet(scheduled_date(seq[i])) /\ Get(scheduled_date(seq[i])) <= today
        THEN level ELSE level_as_of_today)

\* One iteration: `level` is the level after seq[i].
recalculate_step(movs, seq, i, tankId, level, level_as_of_today) ==
    recalculate_loop(
        IF tank_id(seq[i]) = Some(tankId)
        THEN storage_update(movs, seq[i].id, [resulting_volume |-> Some(Round2(level))])
        ELSE IF seq[i].target_tank_id = Some(tankId)
        THEN storage_update(movs, seq[i].id, [target_resulting_volume |-> Some(Round2(level))])
        ELSE movs,
        seq, i + 1, tankId, level,
        IF IsSet(scheduled_date(seq[i])) /\ Get(scheduled_date(seq[i])) <= today
        THEN level ELSE level_as_of_today)

recalculate_loop(movs, seq, i, tankId, current_level, level_as_of_today) ==
    IF i > Len(seq) THEN [movements |-> movs, level |-> Round2(level_as_of_today)]
    ELSE recalculate_step(movs, seq, i, tankId,
                          apply_movement_to_level(current_level, seq[i], tankId),
                          level_as_of_today)

\* recalculate_from that starts from the volume already recorded on the first
\* movement instead of the starting volume.
recalculate_from_recorded(movs, seq, tankId, starting_volume) ==
    recalculate_loop(movs, seq, 1, tankId,
                     IF Len(seq) > 0 /\ IsSet(seq[1].resulting_volume)
                     THEN Get(seq[1].resulting_volume) ELSE starting_volume,
                     starting_volume)

\* current_level = starting_volume; level_as_of_today = starting_volume
recalculate_from(movs, seq, tankId, starting_volume) ==
    recalculate_loop(movs, seq, 1, tankId, starting_volume, starting_volume)

recalculate_tank_volumes(movs, tank, from_date) ==
    recalculate_from(movs,
                     get_tank_movements_from_date(movs, tank.id, from_date, None),
                     tank.id,
                     get_starting_volume_for_tank(movs, tank, from_date))

update_tank_current_level(tks, tankId, new_level) ==
    [tks EXCEPT ![tankId].current_level = Round2(new_level)]

\* self._tank_storage.get_by_id
TankExists(tankId) == tankId \in TankIds

\* ------------------------------------------------------- outcome of a call
\* raise MovementServiceError(message, status_code): nothing written.
Raise(message, status_code) ==
    [movements |-> movements, tanks |-> tanks, nextId |-> nextId,
     ok |-> FALSE, error |-> message, status_code |-> status_code, id |-> 0]

\* A call that returns the movement `id` with the store as given.
Return(movs, tks, nid, id) ==
    [movements |-> movs, tanks |-> tks, nextId |-> nid,
     ok |-> TRUE, error |-> "", status_code |-> 200, id |-> id]

\* The two containers as one value.
Db(movs, tks) == [movements |-> movs, tanks |-> tks]

ReturnDb(db, nid, id) == Return(db.movements, db.tanks, nid, id)

\* The store after a recalculation `r`, with the level it returned written
\* to the tank when `persist`.
persist_level(tks, tankId, r, persist) ==
    Db(r.movements, IF persist THEN update_tank_current_level(tks, tankId, r.level) ELSE tks)

\* recalculate one tank and, when `persist`, write the level it returns.
recalculate_and_update(db, tankId, from_date, persist) ==
    persist_level(db.tanks, tankId,
                  recalculate_tank_volumes(db.movements, db.tanks[tankId], from_date),
                  persist)

\* if <cond> and <tank id> and <date>: tank = get_by_id(...); if tank:
\* recalculate it and write its current_level.
recalculate_if(db, cond, optTankId, optDate) ==
    IF cond /\ IsSet(optTankId) /\ IsSet(optDate) /\ TankExists(Get(optTankId))
    THEN recalculate_and_update(db, Get(optTankId), Get(optDate), TRUE)
    ELSE db

\* ------------------------------------------------- MovementService.create
\* data: [type, tank_id, target_tank_id, expected_volume, scheduled_date]
\* if target_tank: recalculate it, and write its level if not future.
create_recalculate_target(db, data, persist) ==
    IF data.type = "transfer"
    THEN recalculate_and_update(db, Get(data.target_tank_id), data.scheduled_date, persist)
    ELSE db

create(data) ==
    LET isTransfer == data.type = "transfer" IN
    IF ~TankExists(data.tank_id) THEN Raise("Tank not found", 400)
    ELSE IF isTransfer /\ ~IsSet(data.target_tank_id)
    THEN Raise("Target tank is required for transfers", 400)
    ELSE IF isTransfer /\ ~TankExists(Get(data.target_tank_id))
    THEN Raise("Target tank not found", 400)
    ELSE IF isTransfer /\ data.tank_id = Get(data.target_tank_id)
    THEN Raise("Source and target tank cannot be the same", 400)
    ELSE
    LET tank == tanks[data.tank_id]
        is_future_movement == data.scheduled_date > today
        available_level ==
            get_available_volume_for_movement(movements, tank, data.scheduled_date, None)
    IN
    IF data.type \in {"discharge", "transfer"} /\ data.expected_volume > available_level
    THEN Raise("Insufficient feedstock", 400)
    ELSE
    LET delta == get_volume_delta(
                     Movement(0, data.type, Some(data.tank_id), data.target_tank_id,
                              Some(data.expected_volume), None, None, None, None),
                     data.tank_id)
        new_source_level == Max(0, Round2(tank.current_level + delta))
        new_target_level ==
            IF isTransfer
            THEN Some(Round2(tanks[Get(data.target_tank_id)].current_level
                             + data.expected_volume))
            ELSE None
        movement == Movement(nextId, data.type, Some(data.tank_id), data.target_tank_id,
                             Some(data.expected_volume), None, Some(data.scheduled_date),
                             Some(new_source_level), new_target_level)
    IN ReturnDb(
           create_recalculate_target(
               recalculate_and_update(Db(storage_create(movements, movement), tanks),
                                      data.tank_id, data.scheduled_date, ~is_future_movement),
               data, ~is_future_movement),
           nextId + 1, nextId)

\* ---------------------------------------- MovementService.create_transfer
\* The loop over the targets: one movement per target, stopping at the first
\* target tank that does not exist.
RECURSIVE create_transfer_loop(_, _, _, _, _)
create_transfer_loop(data, i, movs, nid, running_source_level) ==
    IF i > Len(data.targets) THEN [movements |-> movs, nextId |-> nid, raised |-> FALSE]
    ELSE LET target == data.targets[i] IN
         IF ~TankExists(target.tank_id)
         THEN [movements |-> movs, nextId |-> nid, raised |-> TRUE]
         ELSE LET level == Max(0, Round2(running_source_level - target.volume))
                  new_target_level == Round2(tanks[target.tank_id].current_level + target.volume)
                  movement == Movement(nid, "transfer", Some(data.source_tank_id),
                                       Some(target.tank_id), Some(target.volume), None,
                                       Some(data.scheduled_date),
                                       Some(level), Some(new_target_level))
              IN create_transfer_loop(data, i + 1, storage_create(movs, movement),
                                      nid + 1, level)

RECURSIVE recalculate_targets(_, _, _, _)
recalculate_targets(db, target_tank_ids, from_date, persist) ==
    IF target_tank_ids = {} THEN db
    ELSE LET t == CHOOSE x \in target_tank_ids : TRUE
         IN recalculate_targets(
                IF TankExists(t) THEN recalculate_and_update(db, t, from_date, persist)
                ELSE db,
                target_tank_ids \ {t}, from_date, persist)

RECURSIVE SumVolumes(_, _)
SumVolumes(targets, i) ==
    IF i > Len(targets) THEN 0 ELSE targets[i].volume + SumVolumes(targets, i + 1)

\* After the loop: the error of a missing target tank, raised with the
\* movements of the earlier targets stored, or the recalculation of the source
\* and of every target tank.
create_transfer_finish(data, looped, persist) ==
    IF looped.raised
    THEN [movements |-> looped.movements, tanks |-> tanks, nextId |-> looped.nextId,
          ok |-> FALSE, error |-> "Target tank not found", status_code |-> 400, id |-> 0]
    ELSE ReturnDb(
             recalculate_targets(
                 recalculate_and_update(Db(looped.movements, tanks), data.source_tank_id,
                                        data.scheduled_date, persist),
                 {data.targets[i].tank_id : i \in 1..Len(data.targets)},
                 data.scheduled_date, persist),
             looped.nextId, nextId)

\* data: [source_tank_id, targets: sequence of [tank_id, volume], scheduled_date]
create_transfer(data) ==
    IF ~TankExists(data.source_tank_id) THEN Raise("Source tank not found", 400)
    ELSE IF Len(data.targets) = 0 THEN Raise("At least one target is required", 400)
    ELSE IF \E i \in 1..Len(data.targets) : data.targets[i].tank_id = data.source_tank_id
    THEN Raise("Source and target tank cannot be the same", 400)
    ELSE
    LET source_tank == tanks[data.source_tank_id]
        is_future_movement == data.scheduled_date > today
        total_volume == SumVolumes(data.targets, 1)
        available_level ==
            IF ~is_future_movement
            THEN get_starting_volume_for_tank(movements, source_tank, data.scheduled_date)
            ELSE source_tank.current_level
    IN
    IF total_volume > available_level THEN Raise("Insufficient feedstock", 400)
    ELSE
    create_transfer_finish(
        data,
        create_transfer_loop(data, 1, movements, nextId, source_tank.current_level),
        ~is_future_movement)

\* ------------------------------------------------- MovementService.update
\* data: [scheduled_date_manual, expected_volume_manual, tank_id_manual], each Optional
\* update_data with the request's values under the *_default keys.
update_data_as_defaults(data) ==
    [scheduled_date_default |-> data.scheduled_date_manual,
     expected_volume_default |-> data.expected_volume_manual,
     tank_id_default |-> data.tank_id_manual]

\* The update_data dictionary: the request's values under the *_manual keys
\* (CosmosStorage.update skips the ones that are None).
update_data(data) ==
    [scheduled_date_manual |-> data.scheduled_date_manual,
     expected_volume_manual |-> data.expected_volume_manual,
     tank_id_manual |-> data.tank_id_manual]

\* The recalculations of update: the movement's tank, the target tank of a
\* transfer, and the old tank when the tank changed.
update_recalculate(db, updated, tank_changed, old_tank_id, recalc_from_date) ==
    recalculate_if(
        recalculate_if(
            recalculate_if(db, TRUE, tank_id(updated), recalc_from_date),
            updated.type = "transfer", updated.target_tank_id, recalc_from_date),
        tank_changed, old_tank_id, recalc_from_date)

\* update of a stored movement, from the volume validation on.
update_pending(movement_id, data) ==
    LET movement == movements[movement_id] IN
    LET old_volume == IF IsSet(expected_volume(movement))
                      THEN Get(expected_volume(movement)) ELSE 0
        old_scheduled_date == scheduled_date(movement)
        old_tank_id == tank_id(movement)
        scheduled_date_changed ==
            IsSet(data.scheduled_date_manual) /\ data.scheduled_date_manual # old_scheduled_date
        volume_changed ==
            IsSet(data.expected_volume_manual) /\ Get(data.expected_volume_manual) # old_volume
        tank_changed == IsSet(data.tank_id_manual) /\ data.tank_id_manual # old_tank_id
        validated == IsSet(data.expected_volume_manual)
                        /\ movement.type \in {"discharge", "transfer"}
        effective_tank_id == IF IsSet(data.tank_id_manual) THEN data.tank_id_manual
                             ELSE tank_id(movement)
        effective_date == IF IsSet(data.scheduled_date_manual) THEN data.scheduled_date_manual
                          ELSE scheduled_date(movement)
    IN
    IF validated /\ ~(IsSet(effective_tank_id) /\ TankExists(Get(effective_tank_id)))
    THEN Raise("Tank not found", 400)
    ELSE IF validated
            /\ Get(data.expected_volume_manual)
                 > get_available_volume_for_movement(movements, tanks[Get(effective_tank_id)],
                                                     Get(effective_date), Some(movement_id))
    THEN Raise("Insufficient feedstock", 400)
    ELSE IF ~IsSet(data.scheduled_date_manual) /\ ~IsSet(data.expected_volume_manual)
            /\ ~IsSet(data.tank_id_manual)
    THEN Return(movements, tanks, nextId, movement_id)
    ELSE
    LET written == storage_update(movements, movement_id, update_data(data))
    IN
    IF ~(volume_changed \/ tank_changed \/ scheduled_date_changed)
    THEN Return(written, tanks, nextId, movement_id)
    ELSE
    LET new_scheduled_date == scheduled_date(written[movement_id])
        recalc_from_date ==
            IF scheduled_date_changed /\ IsSet(old_scheduled_date) /\ IsSet(new_scheduled_date)
            THEN Some(Min(Get(old_scheduled_date), Get(new_scheduled_date)))
            ELSE new_scheduled_date
    IN ReturnDb(
           update_recalculate(Db(written, tanks), written[movement_id],
                              tank_changed, old_tank_id, recalc_from_date),
           nextId, movement_id)

\* update without the Completed check.
update_any_status(movement_id, data) ==
    IF movement_id \notin DOMAIN movements THEN Raise("Movement not found", 404)
    ELSE update_pending(movement_id, data)

update(movement_id, data) ==
    IF movement_id \notin DOMAIN movements THEN Raise("Movement not found", 404)
    ELSE IF IsSet(movements[movement_id].actual_volume)
    THEN Raise("Cannot edit completed movements", 400)
    ELSE update_pending(movement_id, data)

\* ----------------------------------------------- MovementService.complete
\* The recalculation of the movement's tank and, for a transfer, of its
\* target tank, from the movement's date; complete and delete end with it.
recalculate_source_and_target(db, movement) ==
    recalculate_if(
        recalculate_if(db, TRUE, tank_id(movement), scheduled_date(movement)),
        movement.type = "transfer", movement.target_tank_id, scheduled_date(movement))

\* The writes of complete: actual_volume, then the recalculation of the source
\* tank and, for a transfer, of the target tank.
complete_write(movement_id, actual_volume) ==
    ReturnDb(
        recalculate_source_and_target(
            Db(storage_update(movements, movement_id, [actual_volume |-> Some(actual_volume)]),
               tanks),
            movements[movement_id]),
        nextId, movement_id)

\* complete with the Completed check made after the writes.
complete_checks_late(movement_id, actual_volume) ==
    IF movement_id \notin DOMAIN movements THEN Raise("Movement not found", 404)
    ELSE IF IsSet(movements[movement_id].actual_volume)
    THEN [complete_write(movement_id, actual_volume) EXCEPT
             !.ok = FALSE, !.error = "Movement already completed", !.status_code = 400]
    ELSE complete_write(movement_id, actual_volume)

complete(movement_id, actual_volume) ==
    IF movement_id \notin DOMAIN movements THEN Raise("Movement not found", 404)
    ELSE IF IsSet(movements[movement_id].actual_volume)
    THEN Raise("Movement already completed", 400)
    ELSE complete_write(movement_id, actual_volume)

\* ---------------------------- MovementService.create_imported_adjustment
\* The ADJUSTMENT movement of adjustment_quantity: built, stored, and the tank
\* recalculated from the inspection date.
create_adjustment_movement(tankId, inspection_date, adjustment_quantity) ==
    LET movement == Movement(nextId, "adjustment", Some(tankId), None,
                             Some(Abs(adjustment_quantity)), Some(adjustment_quantity),
                             Some(inspection_date), None, None)
    IN
    \* Movement(...) raises pydantic's ValidationError, not a MovementServiceError
    IF ~MovementValid(movement) THEN Raise("pydantic ValidationError", 500)
    ELSE
    ReturnDb(recalculate_and_update(Db(storage_create(movements, movement), tanks),
                                    tankId, inspection_date, inspection_date <= today),
             nextId + 1, nextId)

create_imported_adjustment(tankId, physical_level, inspection_date) ==
    IF ~TankExists(tankId) THEN Raise("Tank not found", 400)
    ELSE
    LET tank == tanks[tankId] IN
    IF physical_level > tank.capacity
    THEN Raise("Physical level cannot exceed tank capacity", 400)
    ELSE
    create_adjustment_movement(
        tankId, inspection_date,
        calculate_adjustment(
            get_starting_volume_for_tank(movements, tank, inspection_date + 1),
            physical_level))

\* MovementService.create_adjustment: the inspection date is today.
create_adjustment(tankId, physical_level) ==
    create_imported_adjustment(tankId, physical_level, today)

\* ------------------------------------------------- MovementService.delete
\* `return False` is the not-found outcome.
delete(movement_id) ==
    IF movement_id \notin DOMAIN movements THEN Raise("Movement not found", 404)
    ELSE
    ReturnDb(
        recalculate_source_and_target(Db(storage_delete(movements, movement_id), tanks),
                                      movements[movement_id]),
        nextId, movement_id)

\* ---------------------------------------------------------- the requests
AnyTank == TankIds \cup {GhostTank}

\* Requests draw their source from tank A and the unknown id, their target
\* from every id.
Sources == {"A", GhostTank}

\* MovementCreate: expected_volume > 0; a target accompanies a transfer only.
CreateRequests ==
    { [type |-> ty, tank_id |-> t, target_tank_id |-> tg,
       expected_volume |-> v, scheduled_date |-> d] :
        ty \in {"load", "discharge"}, t \in Sources, tg \in {None}, v \in Volumes, d \in Dates }
    \cup
    { [type |-> ty, tank_id |-> t, target_tank_id |-> tg,
       expected_volume |-> v, scheduled_date |-> d] :
        ty \in {"transfer"}, t \in Sources, tg \in {None} \cup {Some(x) : x \in AnyTank},
        v \in Volumes, d \in Dates }

\* TransferTarget and TransferCreate: up to MaxTargets targets.
MaxTargets == 2
TransferTargets == { [tank_id |-> t, volume |-> v] : t \in AnyTank, v \in Volumes }
TargetLists == UNION { [1..n -> TransferTargets] : n \in 0..MaxTargets }
TransferRequests ==
    { [source_tank_id |-> s, targets |-> ts, scheduled_date |-> d] :
        s \in Sources, ts \in TargetLists, d \in Dates }

\* MovementUpdate: every field optional; a request moves the movement to
\* tank B or to the unknown id.
UpdateRequests ==
    { [scheduled_date_manual |-> d, expected_volume_manual |-> v, tank_id_manual |-> t] :
        d \in {None} \cup {Some(x) : x \in Dates},
        v \in {None} \cup {Some(x) : x \in Volumes},
        t \in {None, Some("B"), Some(GhostTank)} }

\* AdjustmentCreate: physical_level >= 0.
PhysicalLevels == 0..(Capacity + 1)

\* ------------------------------------------------------------ the actions
\* A client makes up to MaxCalls calls and stops at the first call that is
\* rejected without a write.
MayCall == calls < MaxCalls /\ (last.ok \/ last.op = "create_transfer")

\* The store and the response after a call; `addressed` is the movement id the
\* request named, 0 when it named none.
Respond(op, addressed, r) ==
    /\ calls' = calls + 1
    /\ movements' = r.movements
    /\ tanks' = r.tanks
    /\ nextId' = r.nextId
    /\ last' = [op |-> op, ok |-> r.ok, error |-> r.error, status_code |-> r.status_code,
                id |-> IF addressed # 0 THEN addressed ELSE r.id]
    /\ UNCHANGED <<dbTies, requests>>

Create ==
    \E data \in CreateRequests :
        /\ MayCall
        /\ nextId <= MaxMov
        /\ Respond("create", 0, create(data))

CreateTransfer ==
    \E data \in TransferRequests :
        /\ MayCall
        /\ nextId + Len(data.targets) - 1 <= MaxMov
        /\ Respond("create_transfer", 0, create_transfer(data))

Update ==
    \E id \in MovementIds, data \in UpdateRequests :
        /\ MayCall
        /\ Respond("update", id, update(id, data))

Complete ==
    \E id \in MovementIds, v \in Volumes :
        /\ MayCall
        /\ Respond("complete", id, complete(id, v))

CreateAdjustment ==
    \E t \in AnyTank, p \in PhysicalLevels :
        /\ MayCall
        /\ nextId <= MaxMov
        /\ Respond("create_adjustment", 0, create_adjustment(t, p))

CreateImportedAdjustment ==
    \E t \in AnyTank, p \in PhysicalLevels, d \in Dates :
        /\ MayCall
        /\ nextId <= MaxMov
        /\ Respond("create_imported_adjustment", 0, create_imported_adjustment(t, p, d))

Delete ==
    \E id \in MovementIds :
        /\ MayCall
        /\ Respond("delete", id, delete(id))

\* Tank(...): created with current_level = initial_level (TankService.create).
Tank(id, initial_level) ==
    [id |-> id, capacity |-> Capacity, initial_level |-> initial_level,
     current_level |-> initial_level]

Init ==
    /\ movements = <<>>
    /\ tanks = [t \in TankIds |-> Tank(t, IF t = "A" THEN InitialLevelA ELSE InitialLevelB)]
    /\ nextId = 1
    /\ dbTies \in [asc : {"insertion", "reverse"}, desc : {"insertion", "reverse"}]
    /\ last = [op |-> "init", ok |-> TRUE, error |-> "", status_code |-> 200, id |-> 0]
    /\ calls = 0
    /\ requests = <<>>

Next ==
    \/ Create
    \/ CreateTransfer
    \/ Update
    \/ Complete
    \/ CreateAdjustment
    \/ CreateImportedAdjustment
    \/ Delete

Spec == Init /\ [][Next]_vars

\* ------------------------------------------- longer histories, fewer requests
\* A client that works on tank A with transfers to tank B, in volumes of 1 and
\* on dates up to today, edits a date or moves a movement to tank B, completes
\* with the largest volume, reads tank A empty, and stops at the first
\* rejected call.
LedgerCreateRequests ==
    { data \in CreateRequests :
        /\ data.tank_id = "A" /\ data.type \in {"load", "discharge"}
        /\ data.expected_volume = 1 /\ data.scheduled_date <= today }

LedgerTransferRequests ==
    { data \in TransferRequests :
        /\ data.source_tank_id = "A" /\ data.scheduled_date <= today
        /\ Len(data.targets) >= 1
        /\ \A i \in 1..Len(data.targets) :
              data.targets[i].tank_id = "B" /\ data.targets[i].volume = 1 }

LedgerUpdateRequests ==
    { data \in UpdateRequests :
        /\ ~IsSet(data.expected_volume_manual)
        /\ \/ /\ IsSet(data.scheduled_date_manual) /\ Get(data.scheduled_date_manual) <= today
              /\ ~IsSet(data.tank_id_manual)
           \/ /\ ~IsSet(data.scheduled_date_manual)
              /\ data.tank_id_manual = Some("B") }

MayCallLedger == calls < MaxLedgerCalls /\ last.ok

LedgerCreate ==
    \E data \in LedgerCreateRequests :
        /\ MayCallLedger
        /\ nextId <= MaxLedgerMov
        /\ Respond("create", 0, create(data))

LedgerCreateTransfer ==
    \E data \in LedgerTransferRequests :
        /\ MayCallLedger
        /\ nextId + Len(data.targets) - 1 <= MaxLedgerMov
        /\ Respond("create_transfer", 0, create_transfer(data))

LedgerUpdate ==
    \E id \in DOMAIN movements, data \in LedgerUpdateRequests :
        /\ MayCallLedger
        /\ Respond("update", id, update(id, data))

LedgerDelete ==
    \E id \in DOMAIN movements :
        /\ MayCallLedger
        /\ Respond("delete", id, delete(id))

LedgerComplete ==
    \E id \in DOMAIN movements :
        /\ MayCallLedger
        /\ Respond("complete", id, complete(id, MaxVol))

LedgerCreateAdjustment ==
    /\ MayCallLedger
    /\ nextId <= MaxLedgerMov
    /\ Respond("create_adjustment", 0, create_adjustment("A", 0))

NextLedger ==
    \/ LedgerCreate
    \/ LedgerCreateTransfer
    \/ LedgerUpdate
    \/ LedgerComplete
    \/ LedgerCreateAdjustment
    \/ LedgerDelete

SpecLedger == Init /\ [][NextLedger]_vars

\* ------------------------------------- the pure functions, called directly
\* The attributes MovementBase stores as a default/manual pair.
PairedAttributes ==
    { "tank_id", "expected_volume", "scheduled_date", "notes", "trade_number",
      "trade_line_item", "strategy", "destination", "equipment",
      "discharge_date", "base_diff", "quality_adj_diff" }

PairedFields ==
    UNION { { <<a, "default">>, <<a, "manual">> } : a \in PairedAttributes }

FieldName(a, half) ==
    CASE a = "tank_id" -> IF half = "default" THEN "tank_id_default" ELSE "tank_id_manual"
      [] a = "expected_volume" ->
            IF half = "default" THEN "expected_volume_default" ELSE "expected_volume_manual"
      [] a = "scheduled_date" ->
            IF half = "default" THEN "scheduled_date_default" ELSE "scheduled_date_manual"
      [] a = "notes" -> IF half = "default" THEN "notes_default" ELSE "notes_manual"
      [] a = "trade_number" ->
            IF half = "default" THEN "trade_number_default" ELSE "trade_number_manual"
      [] a = "trade_line_item" ->
            IF half = "default" THEN "trade_line_item_default" ELSE "trade_line_item_manual"
      [] a = "strategy" -> IF half = "default" THEN "strategy_default" ELSE "strategy_manual"
      [] a = "destination" ->
            IF half = "default" THEN "destination_default" ELSE "destination_manual"
      [] a = "equipment" -> IF half = "default" THEN "equipment_default" ELSE "equipment_manual"
      [] a = "discharge_date" ->
            IF half = "default" THEN "discharge_date_default" ELSE "discharge_date_manual"
      [] a = "base_diff" -> IF half = "default" THEN "base_diff_default" ELSE "base_diff_manual"
      [] a = "quality_adj_diff" ->
            IF half = "default" THEN "quality_adj_diff_default" ELSE "quality_adj_diff_manual"

\* MovementBase(...): a document whose pair `attribute` holds the two given
\* values; every other paired field keeps its default, None.
MovementBase(attribute, default, manual) ==
    [ f \in { FieldName(p[1], p[2]) : p \in PairedFields } |->
        IF f = FieldName(attribute, "default") THEN default
        ELSE IF f = FieldName(attribute, "manual") THEN manual
        ELSE None ]

\* The computed field of the document for the attribute.
computed_field(m, attribute) ==
    CASE attribute = "tank_id" -> tank_id(m)
      [] attribute = "expected_volume" -> expected_volume(m)
      [] attribute = "scheduled_date" -> scheduled_date(m)
      [] attribute = "notes" -> notes(m)
      [] attribute = "trade_number" -> trade_number(m)
      [] attribute = "trade_line_item" -> trade_line_item(m)
      [] attribute = "strategy" -> strategy(m)
      [] attribute = "destination" -> destination(m)
      [] attribute = "equipment" -> equipment(m)
      [] attribute = "discharge_date" -> discharge_date(m)
      [] attribute = "base_diff" -> base_diff(m)
      [] attribute = "quality_adj_diff" -> quality_adj_diff(m)

\* Stored values of a pair: null, or one of two values.
PairValues == {None, Some(1), Some(2)}

\* Movement documents the calculations are called with: every type, the
\* source given by default, by override or not at all, any target, expected
\* volumes by default or override, actual volumes of either sign.
CalculationMovements ==
    { [ Movement(1, type, tankDefault, target, expDefault, actual, Some(1), None, None)
          EXCEPT !.tank_id_manual = tankManual, !.expected_volume_manual = expManual ] :
        type \in {"load", "discharge", "transfer", "adjustment"},
        tankDefault \in {None, Some("A"), Some("B")},
        tankManual \in {None, Some("A")},
        target \in {None, Some("A"), Some("B")},
        expDefault \in {None, Some(1)},
        expManual \in {None, Some(2)},
        actual \in {None, Some(0), Some(3), Some(0 - 1)} }

CalculationLevels == 0..2

\* One call in a behaviour: the functions keep no state between calls.
\* `args` are the arguments in the order of the signature.
Returned(op, args, value) ==
    /\ calls = 0
    /\ calls' = 1
    /\ last' = [op |-> op, ok |-> TRUE, error |-> "", status_code |-> 200, id |-> 0,
                args |-> args, value |-> value]
    /\ UNCHANGED <<movements, tanks, nextId, dbTies, requests>>

ComputedField ==
    \E attribute \in PairedAttributes, default \in PairValues, manual \in PairValues :
        Returned("computed_field",
                 <<attribute, default, manual>>,
                 computed_field(MovementBase(attribute, default, manual), attribute))

ApplyMovementToLevel ==
    \E m \in CalculationMovements, t \in TankIds, level \in CalculationLevels :
        Returned("apply_movement_to_level",
                 <<level, m, t>>,
                 apply_movement_to_level(level, m, t))

GetVolumeDelta ==
    \E m \in CalculationMovements, t \in TankIds :
        Returned("get_volume_delta", <<m, t>>,
                 get_volume_delta(m, t))

\* Documents written before the recorded volumes existed: loads, discharges
\* and transfers from A to B, pending, with no resulting_volume and no
\* target_resulting_volume.
LegacyVolumes == {1, 3}
LegacyDates == {1, 2}
MaxLegacy == 2

LegacyMovement(id, type, volume, date) ==
    Movement(id, type, Some("A"), IF type = "transfer" THEN Some("B") ELSE None,
             Some(volume), None, Some(date), None, None)

LegacyStores ==
    UNION { { [id \in 1..n |-> LegacyMovement(id, f[id][1], f[id][2], f[id][3])] :
                f \in [1..n -> {"load", "discharge", "transfer"}
                                 \X LegacyVolumes \X LegacyDates] } :
            n \in 0..MaxLegacy }

GetStartingVolumeForTank ==
    \E store \in LegacyStores, t \in TankIds, before_date \in {2, 3} :
        Returned("get_starting_volume_for_tank", <<store, t, before_date>>,
                 get_starting_volume_for_tank(store, tanks[t], before_date))

NextCalculations ==
    \/ ComputedField
    \/ ApplyMovementToLevel
    \/ GetVolumeDelta
    \/ GetStartingVolumeForTank

SpecCalculations == Init /\ [][NextCalculations]_vars

\* ------------------------------------------ two create requests at a time
\* The handlers run in the server's thread pool: between two accesses to the
\* store by one request, the other request may access it.  A request is at a
\* label `pc`, the next access to the store it makes.
Requests == {1, 2}

\* Loads and discharges on tank A, dated today or before.
ConcurrentCreateRequests ==
    [ type : {"load", "discharge"}, tank_id : {"A"}, target_tank_id : {None},
      expected_volume : Volumes, scheduled_date : {1, today} ]

\* A request that has been received: no local variable is set yet.
Received(data) ==
    [ pc |-> "get_tank", data |-> data, tank |-> None, starting_volume |-> 0,
      id |-> 0, movements |-> <<>>, i |-> 0, current_level |-> 0,
      level_as_of_today |-> 0, existing |-> None, ok |-> TRUE, error |-> "" ]

InitConcurrent ==
    /\ movements = <<>>
    /\ tanks = [t \in TankIds |-> Tank(t, IF t = "A" THEN InitialLevelA ELSE InitialLevelB)]
    /\ nextId = 1
    /\ dbTies \in [asc : {"insertion", "reverse"}, desc : {"insertion", "reverse"}]
    /\ last = [op |-> "init", ok |-> TRUE, error |-> "", status_code |-> 200, id |-> 0]
    /\ calls = 0
    /\ requests \in [Requests -> {Received(data) : data \in ConcurrentCreateRequests}]

\* Request p moves on: its locals become `r`.
Proceed(p, r) == requests' = [requests EXCEPT ![p] = r]

\* tank = self._tank_storage.get_by_id(movement_data.tank_id)
GetTank(p) ==
    LET r == requests[p] IN
    /\ r.pc = "get_tank"
    /\ Proceed(p, [r EXCEPT !.tank = Some(tanks[r.data.tank_id]),
                            !.pc = IF r.data.type \in {"discharge", "transfer"}
                                   THEN "available_starting_volume" ELSE "create"])
    /\ UNCHANGED <<movements, tanks, nextId, dbTies, last, calls>>

\* _get_available_volume_for_movement, its first query.
AvailableStartingVolume(p) ==
    LET r == requests[p] IN
    /\ r.pc = "available_starting_volume"
    /\ Proceed(p, [r EXCEPT !.starting_volume =
                                get_starting_volume_for_tank(movements, Get(r.tank),
                                                             r.data.scheduled_date),
                            !.pc = "available_same_day"])
    /\ UNCHANGED <<movements, tanks, nextId, dbTies, last, calls>>

\* The request after the availability check against available_level.
checked(r, available_level) ==
    IF r.data.expected_volume > available_level
    THEN [r EXCEPT !.pc = "done", !.ok = FALSE, !.error = "Insufficient feedstock"]
    ELSE [r EXCEPT !.pc = "create"]

\* _get_available_volume_for_movement, its second query, and the check.
AvailableSameDay(p) ==
    LET r == requests[p] IN
    /\ r.pc = "available_same_day"
    /\ Proceed(p, checked(r, available_after_same_day(movements, Get(r.tank),
                                                      r.data.scheduled_date, None,
                                                      r.starting_volume)))
    /\ UNCHANGED <<movements, tanks, nextId, dbTies, last, calls>>

\* The document create builds: its provisional resulting_volume comes from the
\* current_level of the tank document read at the start.
new_movement(r, id) ==
    Movement(id, r.data.type, Some(r.data.tank_id), r.data.target_tank_id,
             Some(r.data.expected_volume), None, Some(r.data.scheduled_date),
             Some(Max(0, Round2(Get(r.tank).current_level
                                + get_volume_delta(
                                      Movement(0, r.data.type, Some(r.data.tank_id),
                                               r.data.target_tank_id,
                                               Some(r.data.expected_volume),
                                               None, None, None, None),
                                      r.data.tank_id)))),
             None)

\* created = self._movement_storage.create(movement), made conditional on the
\* availability as the store has it at that moment.
movement_storage_create_if_available(movs, r, id) ==
    IF /\ r.data.type \in {"discharge", "transfer"}
       /\ r.data.expected_volume
              > get_available_volume_for_movement(movs, Get(r.tank),
                                                  r.data.scheduled_date, None)
    THEN movs
    ELSE storage_create(movs, new_movement(r, id))

\* created = self._movement_storage.create(movement)
movement_storage_create(movs, r, id) == storage_create(movs, new_movement(r, id))

CreateItem(p) ==
    LET r == requests[p] IN
    /\ r.pc = "create"
    /\ movements' = movement_storage_create(movements, r, nextId)
    /\ nextId' = nextId + 1
    /\ Proceed(p, [r EXCEPT !.id = nextId, !.pc = "recalculate_starting_volume"])
    /\ UNCHANGED <<tanks, dbTies, last, calls>>

\* _recalculate_tank_volumes: starting_volume = _get_starting_volume_for_tank
RecalculateStartingVolume(p) ==
    LET r == requests[p] IN
    /\ r.pc = "recalculate_starting_volume"
    /\ Proceed(p, [r EXCEPT !.starting_volume =
                                get_starting_volume_for_tank(movements, Get(r.tank),
                                                             r.data.scheduled_date),
                            !.pc = "recalculate_movements"])
    /\ UNCHANGED <<movements, tanks, nextId, dbTies, last, calls>>

\* The label after the loop over r.movements has dealt with element i - 1.
loop_or_leave(r) ==
    IF r.i <= Len(r.movements) THEN [r EXCEPT !.pc = "update_read"]
    ELSE IF r.data.scheduled_date > today THEN [r EXCEPT !.pc = "refetch"]
    ELSE [r EXCEPT !.pc = "tank_read"]

\* movements = self._get_tank_movements_from_date(...); current_level =
\* level_as_of_today = starting_volume
RecalculateMovements(p) ==
    LET r == requests[p] IN
    /\ r.pc = "recalculate_movements"
    /\ Proceed(p, loop_or_leave(
                      [r EXCEPT !.movements =
                                    get_tank_movements_from_date(movements, r.data.tank_id,
                                                                 r.data.scheduled_date, None),
                                !.i = 1,
                                !.current_level = r.starting_volume,
                                !.level_as_of_today = r.starting_volume]))
    /\ UNCHANGED <<movements, tanks, nextId, dbTies, last, calls>>

\* The loop body up to CosmosStorage.update's read_item: the level after the
\* movement from the fetched list, and the document as the store has it now.
UpdateRead(p) ==
    LET r == requests[p]
        movement == r.movements[r.i]
    IN
    /\ r.pc = "update_read"
    /\ Proceed(p, [r EXCEPT !.current_level =
                                apply_movement_to_level(r.current_level, movement,
                                                        r.data.tank_id),
                            !.existing = Some(movements[movement.id]),
                            !.pc = "update_replace"])
    /\ UNCHANGED <<movements, tanks, nextId, dbTies, last, calls>>

\* existing.update(filtered_updates) for the volume field of the tank's role.
with_level(existing, movement, tankId, level) ==
    IF tank_id(movement) = Some(tankId)
    THEN [existing EXCEPT !.resulting_volume = Some(Round2(level))]
    ELSE IF movement.target_tank_id = Some(tankId)
    THEN [existing EXCEPT !.target_resulting_volume = Some(Round2(level))]
    ELSE existing

\* CosmosStorage.update's replace_item with the document read before, and the
\* rest of the loop body.
UpdateReplace(p) ==
    LET r == requests[p]
        movement == r.movements[r.i]
    IN
    /\ r.pc = "update_replace"
    /\ movements' = [movements EXCEPT ![movement.id] =
                        with_level(Get(r.existing), movement, r.data.tank_id,
                                   r.current_level)]
    /\ Proceed(p, loop_or_leave(
                      [r EXCEPT !.existing = None,
                                !.i = r.i + 1,
                                !.level_as_of_today =
                                    IF IsSet(scheduled_date(movement))
                                       /\ Get(scheduled_date(movement)) <= today
                                    THEN r.current_level ELSE r.level_as_of_today]))
    /\ UNCHANGED <<tanks, nextId, dbTies, last, calls>>

\* _update_tank_current_level: CosmosStorage.update's read_item
TankRead(p) ==
    LET r == requests[p] IN
    /\ r.pc = "tank_read"
    /\ Proceed(p, [r EXCEPT !.existing = Some(tanks[r.data.tank_id]),
                            !.pc = "tank_replace"])
    /\ UNCHANGED <<movements, tanks, nextId, dbTies, last, calls>>

\* _update_tank_current_level: CosmosStorage.update's replace_item
TankReplace(p) ==
    LET r == requests[p] IN
    /\ r.pc = "tank_replace"
    /\ tanks' = [tanks EXCEPT ![r.data.tank_id] =
                    [Get(r.existing) EXCEPT !.current_level = Round2(r.level_as_of_today)]]
    /\ Proceed(p, [r EXCEPT !.existing = None, !.pc = "refetch"])
    /\ UNCHANGED <<movements, nextId, dbTies, last, calls>>

\* created = self._movement_storage.get_by_id(created.id); return created
Refetch(p) ==
    LET r == requests[p] IN
    /\ r.pc = "refetch"
    /\ Proceed(p, [r EXCEPT !.movements = <<movements[r.id]>>, !.pc = "done"])
    /\ UNCHANGED <<movements, tanks, nextId, dbTies, last, calls>>

NextConcurrent ==
    \E p \in Requests :
        \/ GetTank(p)
        \/ AvailableStartingVolume(p)
        \/ AvailableSameDay(p)
        \/ CreateItem(p)
        \/ RecalculateStartingVolume(p)
        \/ RecalculateMovements(p)
        \/ UpdateRead(p)
        \/ UpdateReplace(p)
        \/ TankRead(p)
        \/ TankReplace(p)
        \/ Refetch(p)

SpecConcurrent == InitConcurrent /\ [][NextConcurrent]_vars

\* ------------------------------------------- services/signal_service.py
\* The signals of an uploaded file, one per call: the refinery's id, a volume
\* and a load date.
SignalIds == {"S1", "S2"}
Signals == [signal_id : SignalIds, volume : {1}, load_date : {1, today}]

\* SignalAssignment: a tank, a volume > 0 and a date, all required.
SignalAssignments ==
    [tank_id_manual : {"A", GhostTank}, expected_volume_manual : Volumes,
     scheduled_date_manual : {1, today, today + 1}]

\* upload_signals for a file with one signal: a duplicate is skipped, else an
\* unassigned LOAD is stored.
upload_signals(signal) ==
    IF \E id \in DOMAIN movements : movements[id].signal_id = Some(signal.signal_id)
    THEN Return(movements, tanks, nextId, 0)
    ELSE Return(storage_create(movements,
                               [Movement(nextId, "load", None, None, Some(signal.volume),
                                         None, Some(signal.load_date), None, None)
                                   EXCEPT !.signal_id = Some(signal.signal_id)]),
                tanks, nextId + 1, nextId)

assign_signal(movement_id, data) ==
    IF movement_id \notin DOMAIN movements THEN Raise("Movement not found", 404)
    ELSE IF IsSet(tank_id(movements[movement_id]))
    THEN Raise("Movement is already assigned to a tank", 400)
    ELSE IF ~IsSet(movements[movement_id].signal_id)
    THEN Raise("Movement is not a signal", 400)
    ELSE IF ~TankExists(data.tank_id_manual) THEN Raise("Tank not found", 400)
    ELSE Return(storage_update(movements, movement_id,
                               [tank_id_manual |-> Some(data.tank_id_manual),
                                expected_volume_manual |-> Some(data.expected_volume_manual),
                                scheduled_date_manual |-> Some(data.scheduled_date_manual)]),
                tanks, nextId, movement_id)

UploadSignals ==
    \E signal \in Signals :
        /\ MayCallLedger
        /\ nextId <= MaxLedgerMov
        /\ Respond("upload_signals", 0, upload_signals(signal))

AssignSignal ==
    \E id \in 1..MaxLedgerMov, data \in SignalAssignments :
        /\ MayCallLedger
        /\ Respond("assign_signal", id, assign_signal(id, data))

\* Signals are uploaded and assigned while movements are created on tank A.
NextSignals ==
    \/ UploadSignals
    \/ AssignSignal
    \/ LedgerCreate

SpecSignals == Init /\ [][NextSignals]_vars

\* ======================================================= the properties
\* The ledger the specification describes, replayed from the stored documents.

\* m touches tank t: as source through its effective tank id, or as the
\* target of a transfer.
IsSource(m, t) == tank_id(m) = Some(t)
IsTarget(m, t) == m.type = "transfer" /\ m.target_tank_id = Some(t)
Touches(m, t) == IsSource(m, t) \/ IsTarget(m, t)

EffectiveDate(m) == Get(scheduled_date(m))

\* volumeDelta of section 4.2.
VolumeDelta(m, t) ==
    LET v == IF IsSet(m.actual_volume) THEN Get(m.actual_volume)
             ELSE IF IsSet(expected_volume(m)) THEN Get(expected_volume(m)) ELSE 0
    IN CASE m.type = "load" /\ IsSource(m, t) -> v
         [] m.type = "discharge" /\ IsSource(m, t) -> 0 - v
         [] m.type = "transfer" /\ IsSource(m, t) -> 0 - v
         [] m.type = "transfer" /\ IsTarget(m, t) -> v
         [] m.type = "adjustment" /\ IsSource(m, t) -> v
         [] OTHER -> 0

\* m is replayed before n: earlier effective date, ties by creation timestamp.
Before(m, n) ==
    \/ EffectiveDate(m) < EffectiveDate(n)
    \/ EffectiveDate(m) = EffectiveDate(n) /\ m.created_at < n.created_at

\* The level of tank t after replaying the documents `ms` from initial_level in
\* that order, floored at zero after every step.
RECURSIVE Replay(_, _, _)
Replay(t, ms, level) ==
    IF ms = {} THEN level
    ELSE LET first == CHOOSE m \in ms : \A n \in ms \ {m} : Before(m, n)
         IN Replay(t, ms \ {first}, Max(0, level + VolumeDelta(first, t)))

History(movs, t) == {movs[id] : id \in {i \in DOMAIN movs : Touches(movs[i], t)}}

\* Level of tank t as of the end of day d, and right after movement m.
LevelAsOf(movs, t, d) ==
    Replay(t, {m \in History(movs, t) : EffectiveDate(m) <= d}, tanks[t].initial_level)
LevelAfter(movs, t, m) ==
    Replay(t, {n \in History(movs, t) : n = m \/ Before(n, m)}, tanks[t].initial_level)

\* The sum of the signed volumes of tank t's whole history, not floored.
RECURSIVE SumDeltas(_, _)
SumDeltas(t, ms) ==
    IF ms = {} THEN 0
    ELSE LET m == CHOOSE x \in ms : TRUE IN VolumeDelta(m, t) + SumDeltas(t, ms \ {m})

Stored == {movements[id] : id \in DOMAIN movements}

\* C1: after any sequence of lifecycle calls, every tank's current_level is the
\* replay, from initial_level and floored at zero after each step, of exactly
\* the movements touching the tank whose effective date is <= today.
C1_CurrentLevelIsReplay ==
    \A t \in TankIds : tanks[t].current_level = LevelAsOf(movements, t, today)

\* C2: every recorded resulting_volume (tank is source) and
\* target_resulting_volume (tank is target) equals the replay of the tank's
\* whole history, in effective-date order with ties by creation timestamp, up
\* to and including that movement.
C2_ResultingVolumesAreReplay ==
    \A t \in TankIds : \A m \in History(movements, t) :
        /\ IsSource(m, t) => m.resulting_volume = Some(LevelAfter(movements, t, m))
        /\ IsTarget(m, t) /\ ~IsSource(m, t)
              => m.target_resulting_volume = Some(LevelAfter(movements, t, m))

\* The movement a call addressed is dated after today, in the store before the
\* call and in the store after it (where it is stored).
FutureBefore(id) == id \in DOMAIN movements => EffectiveDate(movements[id]) > today
FutureAfter(id) == id \in DOMAIN movements' => EffectiveDate(movements'[id]) > today

\* C3: a successful create, create_transfer, update, complete or delete whose
\* triggering movement is dated after today, before and after the call, leaves
\* every tank's current_level unchanged.
C3_FutureMovementsKeepCurrentLevel ==
    [][ ( /\ last'.ok
          /\ last'.op \in {"create", "create_transfer", "update", "complete", "delete"}
          /\ calls' = calls + 1
          /\ FutureBefore(last'.id) /\ FutureAfter(last'.id) )
        => \A t \in TankIds : tanks'[t].current_level = tanks[t].current_level ]_vars

\* C4: every stored resulting_volume, target_resulting_volume and current_level
\* is >= 0.
C4_NonNegative ==
    /\ \A t \in TankIds : tanks[t].current_level >= 0
    /\ \A m \in Stored :
          /\ IsSet(m.resulting_volume) => Get(m.resulting_volume) >= 0
          /\ IsSet(m.target_resulting_volume) => Get(m.target_resulting_volume) >= 0

\* C4 witness: a tank whose summed deltas are negative, with its levels recorded.
C4_Witness ==
    \E t \in TankIds :
        /\ tanks[t].initial_level + SumDeltas(t, History(movements, t)) < 0
        /\ \E m \in History(movements, t) : IsSource(m, t) /\ m.resulting_volume = Some(0)

\* availableVolume(t, d) for a movement about to be created: the level of t
\* at the start of d adjusted by every movement already dated d.
AvailableVolume(t, d) == LevelAsOf(movements, t, d)

\* create requests for a discharge or a transfer that name existing tanks.
OutflowRequests ==
    { data \in CreateRequests :
        /\ data.type \in {"discharge", "transfer"}
        /\ TankExists(data.tank_id)
        /\ data.type = "transfer" =>
              /\ IsSet(data.target_tank_id)
              /\ TankExists(Get(data.target_tank_id))
              /\ Get(data.target_tank_id) # data.tank_id }

\* C5: create of a DISCHARGE or TRANSFER on an existing tank is accepted if and
\* only if its expected volume is <= availableVolume(tank, date); when it is
\* rejected no movement is created.
C5_CreateAcceptedIffAvailable ==
    \A data \in OutflowRequests :
        LET r == create(data) IN
        /\ r.ok <=> data.expected_volume <= AvailableVolume(data.tank_id, data.scheduled_date)
        /\ ~r.ok => r.movements = movements

\* C8: a successful create_adjustment / create_imported_adjustment returns a
\* Completed ADJUSTMENT whose resulting_volume is the physical level.
C8_AdjustmentExact ==
    \A t \in AnyTank, p \in PhysicalLevels, d \in Dates :
        LET r == create_imported_adjustment(t, p, d) IN
        r.ok => /\ r.movements[r.id].type = "adjustment"
                /\ IsSet(r.movements[r.id].actual_volume)
                /\ r.movements[r.id].resulting_volume = Some(p)

\* C9: for an existing tank and 0 <= physical_level <= capacity,
\* create_adjustment succeeds and stores exactly one new Completed ADJUSTMENT.
C9_AdjustmentOnlyFailsOnTankOrCapacity ==
    \A t \in TankIds, p \in PhysicalLevels :
        p <= tanks[t].capacity =>
            LET r == create_adjustment(t, p) IN
            /\ r.ok
            /\ DOMAIN r.movements = (DOMAIN movements) \cup {r.id}
            /\ r.id \notin DOMAIN movements
            /\ r.movements[r.id].type = "adjustment"
            /\ IsSet(r.movements[r.id].actual_volume)

\* create_transfer requests that pass every check but the volume check.
FanOutRequests ==
    { data \in TransferRequests :
        /\ TankExists(data.source_tank_id)
        /\ Len(data.targets) > 0
        /\ \A i \in 1..Len(data.targets) :
              TankExists(data.targets[i].tank_id)
                 /\ data.targets[i].tank_id # data.source_tank_id }

\* C10: create_transfer is rejected with the insufficient-volume error, and
\* creates no movement, whenever the requested total exceeds
\* availableVolume(source, date).
C10_TransferRejectedWhenOverAvailable ==
    \A data \in FanOutRequests :
        SumVolumes(data.targets, 1) > AvailableVolume(data.source_tank_id, data.scheduled_date)
            => LET r == create_transfer(data) IN
               /\ ~r.ok
               /\ r.error = "Insufficient feedstock"
               /\ r.movements = movements

\* The errors section 7 calls business-rule violations.
BusinessRuleErrors ==
    { "Tank not found", "Target tank not found", "Movement not found",
      "Source and target tank cannot be the same",
      "Target tank is required for transfers", "Insufficient feedstock",
      "Physical level cannot exceed tank capacity",
      "Cannot edit completed movements", "Movement already completed" }

\* C6: a create, update, complete or create_adjustment call that fails with a
\* business-rule error leaves the stored movements, every field of them and
\* every tank's current_level as they were.
C6_FailedCallWritesNothing ==
    [][ ( /\ calls' = calls + 1
          /\ ~last'.ok
          /\ last'.error \in BusinessRuleErrors
          /\ last'.op \in {"create", "update", "complete", "create_adjustment",
                           "create_imported_adjustment"} )
        => movements' = movements /\ tanks' = tanks ]_vars

\* C6 witness: an update of a stored movement was rejected for insufficient volume.
C6_Witness ==
    /\ last.op = "update" /\ ~last.ok /\ last.error = "Insufficient feedstock"
    /\ last.id \in DOMAIN movements

\* The fields update and complete may not touch once a movement is Completed.
Frozen(m) ==
    <<m.actual_volume, m.type, m.target_tank_id,
      m.tank_id_default, m.tank_id_manual,
      m.expected_volume_default, m.expected_volume_manual,
      m.scheduled_date_default, m.scheduled_date_manual>>

\* C7: completion is one-way.  A stored movement becomes Completed only through
\* complete on it; an update or complete call on a Completed movement fails and
\* writes nothing; no call turns a Completed movement back to Pending or
\* changes its actual_volume or its default/manual fields.
C7_CompletionIsOneWay ==
    [][ /\ \A id \in (DOMAIN movements) \cap (DOMAIN movements') :
              /\ IsSet(movements[id].actual_volume)
                    => Frozen(movements'[id]) = Frozen(movements[id])
              /\ ~IsSet(movements[id].actual_volume) /\ IsSet(movements'[id].actual_volume)
                    => last'.op = "complete" /\ last'.id = id /\ last'.ok
        /\ ( /\ calls' = calls + 1
             /\ last'.op \in {"update", "complete"}
             /\ last'.id \in DOMAIN movements
             /\ IsSet(movements[last'.id].actual_volume) )
           => ~last'.ok /\ movements' = movements /\ tanks' = tanks ]_vars

\* C7 witness: an update was refused because the movement is Completed.
C7_Witness ==
    /\ last.op = "update" /\ ~last.ok /\ last.error = "Cannot edit completed movements"
    /\ last.id \in DOMAIN movements
    /\ IsSet(movements[last.id].actual_volume)

\* Tank t's cached level and the volumes recorded on its movements agree
\* with the replay of the documents `movs`.
TankConsistent(movs, tks, t) ==
    /\ tks[t].current_level = LevelAsOf(movs, t, today)
    /\ \A m \in History(movs, t) :
          /\ IsSource(m, t) => m.resulting_volume = Some(LevelAfter(movs, t, m))
          /\ IsTarget(m, t) /\ ~IsSource(m, t)
                => m.target_resulting_volume = Some(LevelAfter(movs, t, m))

\* The movements a step added to the store.
CreatedByStep == {movements'[id] : id \in (DOMAIN movements') \ (DOMAIN movements)}

\* C11: when create_transfer fails on a later target tank that does not exist,
\* the movements created for the earlier targets stay stored and the source
\* tank and the earlier target tanks are recalculated: starting from a
\* consistent store, their recorded volumes and current_level agree with the
\* replay that includes the created movements.
C11_PartialTransferIsRecalculated ==
    [][ ( /\ calls' = calls + 1
          /\ last'.op = "create_transfer" /\ ~last'.ok
          /\ last'.error = "Target tank not found"
          /\ CreatedByStep # {}
          /\ \A t \in TankIds : TankConsistent(movements, tanks, t) )
        => \A t \in TankIds :
              (\E m \in CreatedByStep : Touches(m, t)) => TankConsistent(movements', tanks', t)
      ]_vars

\* availableVolume(t, d) for the stored movement `id`: the level of t at the
\* end of day d replayed without that movement.
AvailableVolumeExcluding(t, d, id) ==
    Replay(t, {m \in History(movements, t) : m.id # id /\ EffectiveDate(m) <= d},
           tanks[t].initial_level)

\* The effective tank, date and volume of movement m after the edit `data`.
EditedTank(m, data) == IF IsSet(data.tank_id_manual) THEN data.tank_id_manual ELSE tank_id(m)
EditedDate(m, data) ==
    IF IsSet(data.scheduled_date_manual) THEN data.scheduled_date_manual ELSE scheduled_date(m)
EditedVolume(m, data) ==
    IF IsSet(data.expected_volume_manual) THEN data.expected_volume_manual
    ELSE expected_volume(m)

\* The edits of a Pending discharge or transfer that change its date, its
\* source tank or its volume and leave it on an existing tank with more
\* volume than the tank has available on that date.
Overdrafts ==
    { e \in [id : DOMAIN movements, data : UpdateRequests] :
        LET m == movements[e.id] IN
        /\ ~IsSet(m.actual_volume)
        /\ m.type \in {"discharge", "transfer"}
        /\ \/ EditedTank(m, e.data) # tank_id(m)
           \/ EditedDate(m, e.data) # scheduled_date(m)
           \/ EditedVolume(m, e.data) # expected_volume(m)
        /\ IsSet(EditedTank(m, e.data)) /\ TankExists(Get(EditedTank(m, e.data)))
        /\ Get(EditedVolume(m, e.data))
              > AvailableVolumeExcluding(Get(EditedTank(m, e.data)),
                                         Get(EditedDate(m, e.data)), e.id) }

\* C12: whenever the store is consistent, an update of a Pending discharge or
\* transfer that changes its date, its source tank or its volume is rejected
\* with the insufficient-volume error if the movement's volume after the edit
\* exceeds availableVolume(effective tank, effective date) computed without
\* the movement; edits of the date alone or the tank alone included.
C12_UpdateRevalidatesVolume ==
    (\A t \in TankIds : TankConsistent(movements, tanks, t))
       => \A e \in Overdrafts :
             /\ ~update(e.id, e.data).ok
             /\ update(e.id, e.data).error = "Insufficient feedstock"

\* The fields of a movement that are not manual overrides or recorded volumes.
SystemFields(m) ==
    <<m.id, m.created_at, m.type, m.target_tank_id, m.actual_volume,
      m.tank_id_default, m.expected_volume_default, m.scheduled_date_default>>

ManualFields(m) == <<m.tank_id_manual, m.expected_volume_manual, m.scheduled_date_manual>>

\* C13: update writes only manual-override fields of the addressed movement:
\* no movement is added or removed, the addressed movement keeps its id,
\* created_at, type, target_tank_id, actual_volume and *_default fields, and
\* every other movement keeps every field except resulting_volume and
\* target_resulting_volume.
C13_UpdateWritesOnlyManualFields ==
    [][ (calls' = calls + 1 /\ last'.op = "update")
        => /\ DOMAIN movements' = DOMAIN movements
           /\ \A id \in DOMAIN movements :
                 /\ SystemFields(movements'[id]) = SystemFields(movements[id])
                 /\ id # last'.id => ManualFields(movements'[id]) = ManualFields(movements[id])
      ]_vars

\* C13 witness: a successful update set a manual date on one movement while
\* another movement is stored.
C13_Witness ==
    /\ last.op = "update" /\ last.ok
    /\ last.id \in DOMAIN movements
    /\ IsSet(movements[last.id].scheduled_date_manual)
    /\ \E id \in DOMAIN movements : id # last.id

\* The volume movement n records for tank t is the replay of `movs` up to n.
RecordedIsReplay(movs, t, n) ==
    /\ IsSource(n, t) => n.resulting_volume = Some(LevelAfter(movs, t, n))
    /\ IsTarget(n, t) /\ ~IsSource(n, t)
          => n.target_resulting_volume = Some(LevelAfter(movs, t, n))

\* C14: delete of a stored movement m removes it, and every remaining movement
\* of a tank m touched whose effective date is on or after m's has its
\* recorded volume equal to the replay of the history without m; delete of an
\* id that is not stored reports not-found and changes nothing.
C14_DeleteRecalculates ==
    [][ (calls' = calls + 1 /\ last'.op = "delete")
        => IF last'.id \in DOMAIN movements
           THEN /\ last'.ok
                /\ DOMAIN movements' = (DOMAIN movements) \ {last'.id}
                /\ \A t \in TankIds :
                      Touches(movements[last'.id], t)
                         => \A n \in History(movements', t) :
                               EffectiveDate(n) >= EffectiveDate(movements[last'.id])
                                  => RecordedIsReplay(movements', t, n)
           ELSE /\ ~last'.ok /\ last'.status_code = 404
                /\ movements' = movements /\ tanks' = tanks
      ]_vars

\* The volume movement n records for tank t.
RecordedFor(n, t) ==
    IF IsSource(n, t) THEN Get(n.resulting_volume) ELSE Get(n.target_resulting_volume)

\* The level of tank t that the recalculation from m's date has reached when
\* it comes to m: the starting volume, or the volume recorded on the movement
\* it applied just before m.
RecalculatedLevelBefore(movs, tks, t, m) ==
    LET seq == get_tank_movements_from_date(movs, t, EffectiveDate(m), None)
        i == CHOOSE k \in 1..Len(seq) : seq[k].id = m.id
    IN IF i = 1 THEN get_starting_volume_for_tank(movs, tks[t], EffectiveDate(m))
       ELSE RecordedFor(seq[i - 1], t)

\* C15: an accepted transfer of volume V conserves volume: after create or
\* create_transfer has recalculated both tanks from the transfer's date, the
\* source level after the transfer is the source level before it minus V and
\* the target level after it is the target level before it plus V.
C15_TransferConservesVolume ==
    [][ ( /\ calls' = calls + 1 /\ last'.ok
          /\ last'.op \in {"create", "create_transfer"} )
        => \A m \in CreatedByStep :
              m.type = "transfer"
                 => /\ Get(m.resulting_volume)
                         = RecalculatedLevelBefore(movements', tanks', Get(tank_id(m)), m)
                              - get_effective_volume(m)
                    /\ Get(m.target_resulting_volume)
                         = RecalculatedLevelBefore(movements', tanks', Get(m.target_tank_id), m)
                              + get_effective_volume(m)
      ]_vars

\* Recalculating tank t from date d again, right after the recalculation
\* that gave `once`, gives `once`: the same documents and the same level.
SecondRecalculationIs(once, t, d) ==
    recalculate_tank_volumes(once.movements, tanks[t], d) = once

\* C16: recalculate is idempotent: for every tank and date, a second
\* recalculation right after the first writes the same resulting_volume and
\* target_resulting_volume on every movement and returns the same level as of
\* today.
C16_RecalculateIsIdempotent ==
    \A t \in TankIds, d \in Dates :
        SecondRecalculationIs(recalculate_tank_volumes(movements, tanks[t], d), t, d)

\* C16 witness: a tank whose recalculation rewrites two movements, one of them
\* completed with a volume other than the expected one.
C16_Witness ==
    \E t \in TankIds, d \in Dates :
        /\ Len(get_tank_movements_from_date(movements, t, d, None)) = 2
        /\ \E m \in Stored : IsSet(m.actual_volume) /\ m.actual_volume # expected_volume(m)

\* C17: for each of the twelve attributes stored as a default/manual pair, the
\* effective value a document computes is the manual value when that is not
\* null, and the default value otherwise.
C17_OverrideResolution ==
    last.op = "computed_field" =>
        LET default == last.args[2]
            manual == last.args[3]
        IN last.value = IF manual # None THEN manual ELSE default

C17_Witness ==
    /\ last.op = "computed_field"
    /\ last.args = <<"quality_adj_diff", Some(1), Some(2)>>
    /\ last.value = Some(2)

\* The delta of a movement for a tank, case by case: v is the actual volume
\* when set, else the effective expected volume, else 0.
DeltaByCase(m, t) ==
    LET v == IF m.actual_volume # None THEN Get(m.actual_volume)
             ELSE IF expected_volume(m) # None THEN Get(expected_volume(m))
             ELSE 0
        source == tank_id(m) = Some(t)
        target == m.target_tank_id = Some(t)
    IN IF m.type \in {"load", "adjustment"} /\ source THEN v
       ELSE IF m.type = "discharge" /\ source THEN 0 - v
       ELSE IF m.type = "transfer" /\ source THEN 0 - v
       ELSE IF m.type = "transfer" /\ target THEN v
       ELSE 0

\* C18: apply_movement_to_level(level, m, t) is max(0, level +
\* get_volume_delta(m, t)) for every movement, tank and level >= 0, and the
\* delta is +v for a load or adjustment on t, -v for a discharge from t, -v for
\* a transfer out of t, +v for a transfer into t, 0 otherwise, with v the
\* actual volume when set, else the effective expected volume, else 0.
C18_ApplyIsFlooredDelta ==
    /\ last.op = "apply_movement_to_level" =>
          last.value = Max(0, last.args[1] + get_volume_delta(last.args[2], last.args[3]))
    /\ last.op = "get_volume_delta" =>
          last.value = DeltaByCase(last.args[1], last.args[2])

\* A discharge larger than the level is floored at zero.
C18_Witness ==
    /\ last.op = "apply_movement_to_level"
    /\ last.args[2].type = "discharge"
    /\ last.args[2].actual_volume = Some(3)
    /\ tank_id(last.args[2]) = Some(last.args[3])
    /\ last.args[1] = 2
    /\ last.value = 0

\* The errors raised because a referenced tank, target tank or movement is
\* missing, and those raised for a broken business rule.
NotFoundErrors ==
    { "Tank not found", "Source tank not found", "Target tank not found",
      "Movement not found" }

RuleViolationErrors ==
    { "Insufficient feedstock", "Source and target tank cannot be the same",
      "Target tank is required for transfers", "At least one target is required",
      "Physical level cannot exceed tank capacity",
      "Cannot edit completed movements", "Movement already completed" }

\* C19: a call that references a tank, target tank or movement that does not
\* exist fails with status 404, and a call that breaks a business rule fails
\* with status 400.
C19_MissingReferenceIsNotFound ==
    /\ (~last.ok /\ last.error \in NotFoundErrors) => last.status_code = 404
    /\ (~last.ok /\ last.error \in RuleViolationErrors) => last.status_code = 400

\* The documents of `seq` stand in ascending order of effective scheduled date,
\* those of one date in ascending order of created_at.
InLedgerOrder(seq) ==
    \A i \in 1..Len(seq) : \A j \in (i + 1)..Len(seq) : Before(seq[i], seq[j])

\* C20: the movements a recalculation of a tank from a date applies are in
\* ascending order of effective scheduled date, and among movements of the same
\* effective date in ascending order of creation timestamp, also when a manual
\* scheduled date differs from the default one.
C20_RecalculationOrder ==
    \A t \in TankIds, d \in Dates :
        InLedgerOrder(get_tank_movements_from_date(movements, t, d, None))

\* The movements touching tank t that are effectively dated before d, in the
\* order in which a recalculation of the whole history applies them.
AppliedBefore(movs, t, d) ==
    SelectSeq(get_tank_movements_from_date(movs, t, 1, None),
              LAMBDA m : Touches(m, t) /\ EffectiveDate(m) < d)

LastRecorded(seq, t, initial_level) ==
    IF Len(seq) = 0 THEN initial_level ELSE RecordedFor(seq[Len(seq)], t)

\* C21: the starting volume of a tank for date D is the volume recorded on the
\* movement the forward replay applies last among those effectively dated
\* before D, also when several movements share that latest date, and the
\* tank's initial_level when no movement is dated before D.
C21_StartingVolumeIsLevelBefore ==
    \A t \in TankIds, d \in Dates :
        get_starting_volume_for_tank(movements, tanks[t], d)
            = LastRecorded(AppliedBefore(movements, t, d), t, tanks[t].initial_level)

\* C22: the resulting volume recorded on a movement that create has just
\* stored on tank T for date D is applyToLevel(availableVolume(T, D), m), the
\* available volume being the one the validation computes before the movement
\* is stored: the movements created earlier for the same date come before it
\* in the recalculated chain.
C22_NewMovementFollowsSameDay ==
    [][ (calls' = calls + 1 /\ last'.op = "create" /\ last'.ok)
        => LET m == movements'[last'.id]
               T == Get(tank_id(m))
           IN m.resulting_volume
                = Some(apply_movement_to_level(
                           get_available_volume_for_movement(movements, tanks[T],
                                                             EffectiveDate(m), None),
                           m, T)) ]_vars

\* C23: when create stores a movement dated D on a tank that already has
\* movements on later dates, each of those later movements then records the
\* replay value of the history that includes the new movement, and the tank's
\* current_level is the replay as of today when D <= today.
C23_InsertionUpdatesLaterMovements ==
    [][ (calls' = calls + 1 /\ last'.op = "create" /\ last'.ok)
        => LET m == movements'[last'.id]
           IN \A t \in {u \in TankIds : Touches(m, u)} :
                 /\ \A n \in History(movements', t) :
                       EffectiveDate(n) > EffectiveDate(m)
                           => RecordedIsReplay(movements', t, n)
                 /\ EffectiveDate(m) <= today
                       => tanks'[t].current_level = LevelAsOf(movements', t, today) ]_vars

\* What a recalculation of tank t from date d may have changed between the
\* store `before` and the store `after`: the resulting_volume of movements
\* whose source is t and the target_resulting_volume of movements whose target
\* is t, effectively dated d or later; nothing else.
RecalculationFrame(before, after, t, d) ==
    /\ DOMAIN after = DOMAIN before
    /\ \A id \in DOMAIN before :
          LET b == before[id]
              a == after[id]
          IN /\ \A f \in DOMAIN b \ {"resulting_volume", "target_resulting_volume"} :
                    a[f] = b[f]
             /\ a.resulting_volume # b.resulting_volume
                    => IsSource(b, t) /\ EffectiveDate(b) >= d
             /\ a.target_resulting_volume # b.target_resulting_volume
                    => IsTarget(b, t) /\ ~IsSource(b, t) /\ EffectiveDate(b) >= d

\* The store as complete leaves it before it recalculates: the actual volume
\* of a pending movement is written, the recorded volumes are still the old
\* ones.
CompletionWritten(id) == storage_update(movements, id, [actual_volume |-> Some(0)])

PendingIds == {id \in DOMAIN movements : ~IsSet(movements[id].actual_volume)}

RecalculationKeepsFrame(store, t, d) ==
    RecalculationFrame(store, recalculate_tank_volumes(store, tanks[t], d).movements, t, d)

RecalculationChanges(store, t, d) ==
    recalculate_tank_volumes(store, tanks[t], d).movements # store

NothingRecordedBefore(store, t, d) ==
    \A m \in History(store, t) :
        EffectiveDate(m) < d
            => /\ IsSource(m, t) => ~IsSet(m.resulting_volume)
               /\ IsTarget(m, t) => ~IsSet(m.target_resulting_volume)

\* C25: when no movement before the date carries a recorded volume for the
\* tank, the starting volume is the replay of all the tank's movements dated
\* before it, in chronological order from initial_level, floored at zero after
\* every movement.
C25_FallbackIsSteppedReplay ==
    last.op = "get_starting_volume_for_tank" =>
        LET store == last.args[1]
            t == last.args[2]
            d == last.args[3]
        IN NothingRecordedBefore(store, t, d)
              => last.value = Replay(t, {m \in History(store, t) : EffectiveDate(m) < d},
                                     tanks[t].initial_level)

\* Every concurrent request has returned.
AllReturned == \A p \in DOMAIN requests : requests[p].pc = "done"

\* The stored volumes and the current level of tank t are what `recalculated`,
\* a recalculation of t's whole history, gives.
StoreIs(recalculated, t) ==
    /\ recalculated.movements = movements
    /\ recalculated.level = tanks[t].current_level

\* C26: once two concurrent requests on a tank have both returned, the tank's
\* current_level and the resulting volumes of all its movements are those of a
\* replay of the final set of movements, as a recalculation of the whole
\* history computes them: no interleaving of their reads and writes leaves a
\* value computed from the older history.
C26_ConcurrentResultIsReplay ==
    AllReturned =>
        \A t \in TankIds : StoreIs(recalculate_tank_volumes(movements, tanks[t], 1), t)

\* C27: nothing stands between the availability check and the write: a
\* request that has passed its check stores its movement at its next step,
\* whatever the other request has stored since that check.  Two concurrent
\* discharges on one tank and date, each within the available volume and
\* together beyond it, can therefore both be persisted (C27_Witness).
C27_CheckedRequestIsPersisted ==
    [][ \A p \in DOMAIN requests :
            (requests[p].pc = "create" /\ requests'[p].pc # "create")
                => /\ requests'[p].id \notin DOMAIN movements
                   /\ requests'[p].id \in DOMAIN movements'
                   /\ movements'[requests'[p].id].expected_volume_default
                          = Some(requests[p].data.expected_volume) ]_vars

C27_Witness ==
    /\ requests # <<>>
    /\ AllReturned
    /\ \A p \in Requests :
          /\ requests[p].ok
          /\ requests[p].data.type = "discharge"
          /\ requests[p].data.scheduled_date = today
          /\ requests[p].data.expected_volume <= InitialLevelA
          /\ requests[p].id \in DOMAIN movements
    /\ requests[1].data.expected_volume + requests[2].data.expected_volume > InitialLevelA

\* C28: every stored transfer has an effective source tank different from its
\* target tank, also after update has set tank_id_manual on it.
C28_TransferSourceIsNotTarget ==
    \A m \in Stored : m.type = "transfer" => tank_id(m) # m.target_tank_id

\* Every stored movement is a load or a discharge as create stored it: pending
\* and without overrides, so that it went through create's availability check
\* and was not edited since.
AllCheckedByCreate ==
    \A m \in Stored :
        /\ m.type \in {"load", "discharge"}
        /\ ~IsSet(m.actual_volume)
        /\ ~IsSet(m.tank_id_manual)
        /\ ~IsSet(m.expected_volume_manual)
        /\ ~IsSet(m.scheduled_date_manual)

\* The floor at zero does not act when the loop of a recalculation of tank t
\* applies seq[i], seq[i + 1], ... from `level`.
RECURSIVE NeverFloored(_, _, _, _)
NeverFloored(level, seq, i, t) ==
    \/ i > Len(seq)
    \/ /\ level + get_volume_delta(seq[i], t) >= 0
       /\ NeverFloored(apply_movement_to_level(level, seq[i], t), seq, i + 1, t)

\* C29: in a history whose discharges all passed the availability check, the
\* floor at zero never takes effect: at every step of every recalculation,
\* level + volumeDelta >= 0.
C29_FloorNeverActs ==
    AllCheckedByCreate =>
        \A t \in TankIds, d \in Dates :
            NeverFloored(get_starting_volume_for_tank(movements, tanks[t], d),
                         get_tank_movements_from_date(movements, t, d, None), 1, t)

\* The store `movs` with the level `level` of tank t is what `recalculated`, a
\* recalculation of t, gives.
IsRecalculated(recalculated, movs, level) ==
    /\ recalculated.movements = movs
    /\ recalculated.level = level

\* C30: after assign_signal has assigned a signal to tank T with an effective
\* date <= today, the signal movement carries a resulting_volume, and T's
\* current_level and the resulting volumes of T's movements dated on or after
\* the signal are those of a recalculation that includes the signal.
C30_AssignSignalKeepsLedger ==
    [][ ( /\ calls' = calls + 1 /\ last'.op = "assign_signal" /\ last'.ok
          /\ EffectiveDate(movements'[last'.id]) <= today )
        => /\ IsSet(movements'[last'.id].resulting_volume)
           /\ IsRecalculated(
                  recalculate_tank_volumes(movements',
                                           tanks'[Get(tank_id(movements'[last'.id]))],
                                           EffectiveDate(movements'[last'.id])),
                  movements',
                  tanks'[Get(tank_id(movements'[last'.id]))].current_level) ]_vars
====
